---- MODULE Spec2Model ----
(***************************************************************************)
(* Model of src/advanced-vector/vector.h: RawMemory<T> (an owned block of  *)
(* raw slots) and Vector<T> (a RawMemory plus the number of constructed    *)
(* elements).  The heap is a map from block ids to slot sequences; a       *)
(* pointer is a block id and an offset.  A slot either holds no object     *)
(* (Uninit) or a constructed element.                                      *)
(***************************************************************************)
EXTENDS Integers, Sequences, FiniteSets, TLC

\* ------------------------------------------------------------- bounds
\* Largest capacity a vector of the model may reach.
MaxCap == 4
\* Largest capacity when two vectors are explored together.
MaxCapTwo == 2
\* Number of heap blocks that may be allocated at once.
NBlocks == 3
\* Number of appends explored by SpecAppend.
MaxAppends == 5

\* ------------------------------------------------------------- values
VecIds == {"a", "b"}
\* Element values a caller passes in.
Values == {"x", "y"}
\* T(): the value-constructed element.
DefaultValue == "0"
\* A slot holding no object.
Uninit == "uninit"
\* A constructed element whose value is indeterminate (built from, or read
\* out of, memory that held no object).
Junk == "junk"
\* A moved-from element: valid, value unspecified.
Moved == "moved"
\* What memory that holds no object may read as.
Indeterminate == Values \cup {DefaultValue, Junk}
Slots == Values \cup {DefaultValue, Uninit, Junk, Moved}

NullPtr == 0
\* size_t arithmetic wraps; the modulus is scaled down from 2^64 to what TLC's
\* integers hold.  Any wrapped count still exceeds every capacity of the model.
SizeTModulus == 2^16
SizeT(n) == n % SizeTModulus

Min(m, n) == IF m <= n THEN m ELSE n

VARIABLES
    heap,    \* block id -> slots of the block, << >> when not allocated
    vec,     \* vector id -> [alive, buffer, capacity, size]
    traits,  \* the element type: [nothrowMove, copyable]
    limit,   \* the capacity this run explores up to
    last,    \* the last call: operation, arguments, result
    log      \* the values appended so far, where a run records them

vars == <<heap, vec, traits, limit, last, log>>

\* ------------------------------------------------------------- RawMemory
FreeBlocks(h) == {b \in DOMAIN h : h[b] = << >>}

\* RawMemory::Allocate: a fresh block for n slots, nullptr when n = 0.
Allocate(h, n) ==
    IF n # 0
    THEN CHOOSE b \in FreeBlocks(h) : \A c \in FreeBlocks(h) : b <= c
    ELSE NullPtr

\* The heap after operator new returned block p of n raw slots.
Obtain(h, p, n) ==
    IF p = NullPtr THEN h ELSE [h EXCEPT ![p] = [i \in 1..n |-> Uninit]]

\* RawMemory::Deallocate: operator delete; no element destructor runs.
Deallocate(w, p) ==
    IF p = NullPtr THEN w
    ELSE [w EXCEPT !.heap[p] = << >>,
                   !.leak = @ \/ (\E i \in 1..Len(w.heap[p]) : w.heap[p][i] # Uninit)]

\* ------------------------------------------------------------- slots
\* The world a call runs in: the heap, the vectors, and what the call did:
\*   ub         it read, or ran a destructor on, memory that holds no object;
\*   rawDestroy it ran a destructor on a slot that holds no object;
\*   leak       it released storage in which a constructed element was left;
\*   thrown     it ended with an exception;
\*   ctor       constructors it invoked on the caller's arguments, T(args...);
\*   carried    copies and moves it made of the element built from them;
\*   ret        the pointer it returned.
World == [heap |-> heap, vec |-> vec, ub |-> FALSE, rawDestroy |-> FALSE,
          leak |-> FALSE, thrown |-> FALSE, ctor |-> 0, carried |-> 0,
          ret |-> [buffer |-> NullPtr, offset |-> 0]]

InBlock(w, p, i) == p # NullPtr /\ i >= 0 /\ i < Len(w.heap[p])

\* The value read from slot i of block p.
ReadSlot(w, p, i) ==
    IF InBlock(w, p, i) /\ w.heap[p][i + 1] # Uninit THEN w.heap[p][i + 1] ELSE Junk

ReadIsUB(w, p, i) == ~InBlock(w, p, i) \/ w.heap[p][i + 1] = Uninit

\* new (p + i) T(x): placement construction.
ConstructAt(w, p, i, x) ==
    IF InBlock(w, p, i) THEN [w EXCEPT !.heap[p][i + 1] = x] ELSE [w EXCEPT !.ub = TRUE]

\* p[d] = p[s] by copy assignment between blocks.
CopyAssignSlot(w, sp, s, dp, d) ==
    LET x == ReadSlot(w, sp, s)
        bad == ReadIsUB(w, sp, s) \/ ReadIsUB(w, dp, d)
    IN  IF InBlock(w, dp, d)
        THEN [w EXCEPT !.heap[dp][d + 1] = x, !.ub = @ \/ bad]
        ELSE [w EXCEPT !.ub = TRUE]

\* p[d] = std::move(p[s]): the target takes the value, the source is moved-from.
MoveAssignSlot(w, p, s, d) ==
    LET x == ReadSlot(w, p, s)
        bad == ReadIsUB(w, p, s) \/ ReadIsUB(w, p, d)
        w1 == IF InBlock(w, p, d) THEN [w EXCEPT !.heap[p][d + 1] = x] ELSE w
        w2 == IF InBlock(w, p, s) /\ ~ReadIsUB(w, p, s) /\ s # d
              THEN [w1 EXCEPT !.heap[p][s + 1] = Moved] ELSE w1
    IN  [w2 EXCEPT !.ub = @ \/ bad]

\* std::destroy_n(p + first, n): runs n destructors from slot first on.
DestroyN(w, p, first, n) ==
    IF n = 0 THEN w
    ELSE LET len == IF p = NullPtr THEN 0 ELSE Len(w.heap[p])
             hit == {i \in 0..(len - 1) : first <= i /\ i < first + n}
             bad == first + n > len \/ \E i \in hit : w.heap[p][i + 1] = Uninit
         IN  IF p = NullPtr THEN [w EXCEPT !.ub = TRUE, !.rawDestroy = TRUE]
             ELSE [w EXCEPT !.heap[p] = [i \in 1..len |-> IF (i - 1) \in hit THEN Uninit ELSE @[i]],
                            !.ub = @ \/ bad, !.rawDestroy = @ \/ bad]

\* std::uninitialized_value_construct_n(p + first, n).
UninitializedValueConstructN(w, p, first, n) ==
    IF n = 0 THEN w
    ELSE [w EXCEPT !.heap[p] = [i \in 1..Len(@) |->
                       IF first <= i - 1 /\ i - 1 < first + n THEN DefaultValue ELSE @[i]]]

\* std::uninitialized_copy_n(sp + s, n, dp + d); construction number failAt
\* throws (0: none).  What was built is destroyed again before the rethrow.
UninitializedCopyN(w, sp, s, n, dp, d, failAt) ==
    IF n = 0 THEN w
    ELSE IF failAt \in 1..n THEN [w EXCEPT !.thrown = TRUE]
    ELSE [w EXCEPT !.heap[dp] = [i \in 1..Len(@) |->
                       IF d <= i - 1 /\ i - 1 < d + n
                       THEN ReadSlot(w, sp, s + (i - 1 - d)) ELSE @[i]],
                   !.ub = @ \/ \E k \in 0..(n - 1) : ReadIsUB(w, sp, s + k)]

\* std::uninitialized_move_n(sp + s, n, dp + d); the sources are left
\* moved-from.  When construction number failAt throws, the sources before it
\* have already been moved from.
UninitializedMoveN(w, sp, s, n, dp, d, failAt) ==
    IF n = 0 THEN w
    ELSE LET done == IF failAt \in 1..n THEN failAt - 1 ELSE n
             src == [i \in 1..Len(w.heap[sp]) |->
                        IF s <= i - 1 /\ i - 1 < s + done /\ w.heap[sp][i] # Uninit
                        THEN Moved ELSE w.heap[sp][i]]
             dst == [i \in 1..Len(w.heap[dp]) |->
                        IF d <= i - 1 /\ i - 1 < d + n
                        THEN ReadSlot(w, sp, s + (i - 1 - d)) ELSE w.heap[dp][i]]
         IN  IF failAt \in 1..n
             THEN [w EXCEPT !.heap[sp] = src, !.thrown = TRUE]
             ELSE [w EXCEPT !.heap[sp] = src, !.heap[dp] = dst,
                            !.ub = @ \/ \E k \in 0..(n - 1) : ReadIsUB(w, sp, s + k)]

\* std::move_backward(p + first, p + lst, p + dlast): last element first.
RECURSIVE MoveBackward(_, _, _, _, _)
MoveBackward(w, p, first, lst, dlast) ==
    IF first >= lst THEN w
    ELSE MoveBackward(MoveAssignSlot(w, p, lst - 1, dlast - 1), p, first, lst - 1, dlast - 1)

\* std::move(p + first, p + lst, p + dfirst): first element first.
RECURSIVE MoveForward(_, _, _, _, _)
MoveForward(w, p, first, lst, dfirst) ==
    IF first >= lst THEN w
    ELSE MoveForward(MoveAssignSlot(w, p, first, dfirst), p, first + 1, lst, dfirst + 1)

\* ------------------------------------------------------------- Vector
\* Faulty variant: relocation always moves.
UseMoveAlways == TRUE

\* is_nothrow_move_constructible_v<T> || !is_copy_constructible_v<T>
UseMove == traits.nothrowMove \/ ~traits.copyable

\* new (p + i) T(std::forward<Args>(args)...): the element is built in its slot
\* from the caller's arguments, by one constructor call.
EmplaceAt(w, p, i, x) == [ConstructAt(w, p, i, x) EXCEPT !.ctor = @ + 1]

\* Relocation of n elements into new storage: move or copy, chosen once per call.
Relocate(w, sp, s, n, dp, d, failAt) ==
    IF UseMove THEN UninitializedMoveN(w, sp, s, n, dp, d, failAt)
    ELSE UninitializedCopyN(w, sp, s, n, dp, d, failAt)

\* Faulty variant: the storage grows by one slot.
GrowthByOne(size) == size + 1

\* Faulty variant: the empty vector is not told apart, twice zero slots.
GrowthDoubleOnly(size) == size * 2

\* (size_ == 0) ? 1 : size_ * 2
GrowthCapacity(size) == IF size = 0 THEN 1 ELSE size * 2

\* Faulty variant: the storage changes hands, the sizes stay.
SwapStorageOnly(w, v, o) ==
    [w EXCEPT !.vec[v].buffer = w.vec[o].buffer, !.vec[v].capacity = w.vec[o].capacity,
              !.vec[o].buffer = w.vec[v].buffer, !.vec[o].capacity = w.vec[v].capacity]

\* Vector::Swap: the storage and the size change hands.
Swap(w, v, o) ==
    [w EXCEPT !.vec[v].buffer = w.vec[o].buffer, !.vec[v].capacity = w.vec[o].capacity,
              !.vec[v].size = w.vec[o].size,
              !.vec[o].buffer = w.vec[v].buffer, !.vec[o].capacity = w.vec[v].capacity,
              !.vec[o].size = w.vec[v].size]

\* data_.Swap(new_data) followed by ~new_data: v adopts block p, the block it
\* held is released.
Adopt(w, v, p, new_capacity) ==
    Deallocate([w EXCEPT !.vec[v].buffer = p, !.vec[v].capacity = new_capacity],
               w.vec[v].buffer)

\* Faulty variant: no early return; the storage is replaced by one of
\* new_capacity slots whatever the capacity is.
ReserveAlways(w, v, new_capacity, f) ==
    LET V == w.vec[v]
        p == Allocate(w.heap, new_capacity)
        w1 == [w EXCEPT !.heap = Obtain(@, p, new_capacity)]
        w2 == Relocate(w1, V.buffer, 0, Min(V.size, new_capacity), p, 0, 0)
    IN  Adopt(DestroyN(w2, V.buffer, 0, V.size), v, p, new_capacity)

\* Failure f of a growing call: 0 none, 1 the allocation, 2 + k the k-th
\* construction after it (Reserve has no new element: 1 + k).
Reserve(w, v, new_capacity, f) ==
    LET V == w.vec[v] IN
    IF new_capacity <= V.capacity THEN w
    ELSE IF f = 1 THEN [w EXCEPT !.thrown = TRUE]
    ELSE LET p == Allocate(w.heap, new_capacity)
             w1 == [w EXCEPT !.heap = Obtain(@, p, new_capacity)]
             w2 == Relocate(w1, V.buffer, 0, V.size, p, 0, f - 1)
         IN  IF w2.thrown THEN Deallocate(w2, p)
             ELSE Adopt(DestroyN(w2, V.buffer, 0, V.size), v, p, new_capacity)

Resize(w, v, new_size, f) ==
    LET V == w.vec[v] IN
    IF new_size > V.capacity
    THEN LET w1 == Reserve(w, v, new_size, f)
         IN  IF w1.thrown THEN w1
             ELSE [UninitializedValueConstructN(w1, w1.vec[v].buffer, V.size, new_size - V.size)
                      EXCEPT !.vec[v].size = new_size]
    ELSE [DestroyN(w, V.buffer, new_size, SizeT(V.size - new_size))
             EXCEPT !.vec[v].size = new_size]

ReserveEmplaceBack(w, v, new_capacity, x, f) ==
    LET V == w.vec[v] IN
    IF f = 1 THEN [w EXCEPT !.thrown = TRUE]
    ELSE LET p == Allocate(w.heap, new_capacity)
             w1 == [w EXCEPT !.heap = Obtain(@, p, new_capacity)]
         IN  IF f = 2 THEN Deallocate([w1 EXCEPT !.thrown = TRUE], p)
             ELSE LET w2 == EmplaceAt(w1, p, V.size, x)
                      w3 == Relocate(w2, V.buffer, 0, V.size, p, 0, f - 2)
                  IN  IF w3.thrown THEN Deallocate(w3, p)
                      ELSE Adopt(DestroyN(w3, V.buffer, 0, V.size), v, p, new_capacity)

\* Faulty variant: the elements from index on are relocated to index, not index + 1.
ReserveEmplaceOverValue(w, v, new_capacity, index, x, f) ==
    LET V == w.vec[v]
        p == Allocate(w.heap, new_capacity)
        w1 == [w EXCEPT !.heap = Obtain(@, p, new_capacity)]
        w2 == ConstructAt(w1, p, index, x)
        w3 == Relocate(w2, V.buffer, 0, index, p, 0, 0)
        w4 == Relocate(w3, V.buffer, index, V.size - index, p, index, 0)
    IN  Adopt(DestroyN(w4, V.buffer, 0, V.size), v, p, new_capacity)

ReserveEmplace(w, v, new_capacity, index, x, f) ==
    LET V == w.vec[v] IN
    IF f = 1 THEN [w EXCEPT !.thrown = TRUE]
    ELSE LET p == Allocate(w.heap, new_capacity)
             w1 == [w EXCEPT !.heap = Obtain(@, p, new_capacity)]
         IN  IF f = 2 THEN Deallocate([w1 EXCEPT !.thrown = TRUE], p)
             ELSE LET w2 == EmplaceAt(w1, p, index, x)
                      w3 == Relocate(w2, V.buffer, 0, index, p, 0, f - 2)
                      w4 == IF w3.thrown THEN w3
                            ELSE Relocate(w3, V.buffer, index, V.size - index,
                                          p, index + 1, f - 2 - index)
                  IN  IF w4.thrown THEN Deallocate(w4, p)
                      ELSE Adopt(DestroyN(w4, V.buffer, 0, V.size), v, p, new_capacity)

\* Faulty variant: the element is built in the next slot whether or not the
\* storage has room.
EmplaceBackNoGrowth(w, v, x, f) ==
    LET V == w.vec[v]
    IN  [EmplaceAt(w, V.buffer, V.size, x)
            EXCEPT !.vec[v].size = V.size + 1,
                   !.ret = [buffer |-> V.buffer, offset |-> V.size]]

EmplaceBack(w, v, x, f) ==
    LET V == w.vec[v]
        w1 == IF V.size = V.capacity
              THEN ReserveEmplaceBack(w, v, GrowthCapacity(V.size), x, f)
              ELSE IF f = 2 THEN [w EXCEPT !.thrown = TRUE]
              ELSE EmplaceAt(w, V.buffer, V.size, x)
    IN  IF w1.thrown THEN w1
        ELSE [w1 EXCEPT !.vec[v].size = V.size + 1,
                        !.ret = [buffer |-> w1.vec[v].buffer, offset |-> V.size]]

\* The slots of the non-growing Emplace: new (end()) T(move(*end())) builds the
\* slot one past the last element from itself, memory that holds no object, so
\* its value g is indeterminate; then [index, size - 1) moves up by one; then
\* *new_pos = T(args...) builds a temporary from the arguments and move-assigns
\* it to index.  Failure 2 is that of the temporary's constructor or of the
\* assignment: the shift has been made by then.
EmplaceInPlace(w, v, index, x, g, f) ==
    LET V == w.vec[v]
        w1 == [ConstructAt(w, V.buffer, V.size, g) EXCEPT !.ub = TRUE]
        w2 == MoveBackward(w1, V.buffer, index, V.size - 1, V.size)
    IN  IF f = 2 THEN [w2 EXCEPT !.thrown = TRUE]
        ELSE [w2 EXCEPT !.heap[V.buffer][index + 1] = x,
                        !.ctor = @ + 1, !.carried = @ + 1]

Emplace(w, v, index, x, g, f) ==
    LET V == w.vec[v] IN
    IF index # V.size
    THEN LET w1 == IF V.size = V.capacity
                   THEN ReserveEmplace(w, v, GrowthCapacity(V.size), index, x, f)
                   ELSE EmplaceInPlace(w, v, index, x, g, f)
         IN  IF w1.thrown THEN w1
             ELSE [w1 EXCEPT !.vec[v].size = V.size + 1,
                             !.ret = [buffer |-> w1.vec[v].buffer, offset |-> index]]
    ELSE LET w1 == EmplaceBack(w, v, x, f)
         IN  IF w1.thrown THEN w1
             ELSE [w1 EXCEPT !.ret = [buffer |-> w1.vec[v].buffer, offset |-> index]]

\* Faulty variant: the last element is destroyed, the tail is not moved down.
EraseLast(w, v, index) ==
    LET V == w.vec[v]
    IN  [DestroyN(w, V.buffer, V.size - 1, 1)
            EXCEPT !.vec[v].size = V.size - 1,
                   !.ret = [buffer |-> V.buffer, offset |-> index]]

Erase(w, v, index) ==
    LET V == w.vec[v]
        w1 == MoveForward(w, V.buffer, index + 1, V.size, index)
        w2 == DestroyN(w1, V.buffer, V.size - 1, 1)
    IN  [w2 EXCEPT !.vec[v].size = V.size - 1,
                   !.ret = [buffer |-> V.buffer, offset |-> index]]

\* Faulty variant: no test for the empty vector.
PopBackUnguarded(w, v) ==
    LET V == w.vec[v]
    IN  [DestroyN(w, V.buffer, V.size - 1, 1) EXCEPT !.vec[v].size = V.size - 1]

PopBack(w, v) ==
    LET V == w.vec[v] IN
    IF V.size > 0
    THEN [DestroyN(w, V.buffer, V.size - 1, 1) EXCEPT !.vec[v].size = V.size - 1]
    ELSE w

\* A vector object that is not constructed, and Vector() = default.
NoVector == [alive |-> FALSE, buffer |-> NullPtr, capacity |-> 0, size |-> 0]
DefaultVector == [alive |-> TRUE, buffer |-> NullPtr, capacity |-> 0, size |-> 0]

\* explicit Vector(size_t size)
SizedConstruct(w, v, size, f) ==
    IF f = 1 /\ size # 0 THEN [w EXCEPT !.thrown = TRUE]
    ELSE LET p == Allocate(w.heap, size)
             w1 == [w EXCEPT !.heap = Obtain(@, p, size)]
             w2 == UninitializedValueConstructN(w1, p, 0, size)
         IN  [w2 EXCEPT !.vec[v] = [alive |-> TRUE, buffer |-> p,
                                    capacity |-> size, size |-> size]]

\* Faulty variant: the copy shares the storage of other.
CopyConstructShared(w, v, o, f) ==
    [w EXCEPT !.vec[v] = [alive |-> TRUE, buffer |-> w.vec[o].buffer,
                          capacity |-> w.vec[o].size, size |-> w.vec[o].size]]

\* Vector(const Vector& other): storage for other.size_ slots, then the copies.
\* When a copy throws, the member data_ is released and no object exists.
CopyConstruct(w, v, o, f) ==
    LET O == w.vec[o] IN
    IF f = 1 /\ O.size # 0 THEN [w EXCEPT !.thrown = TRUE]
    ELSE LET p == Allocate(w.heap, O.size)
             w1 == [w EXCEPT !.heap = Obtain(@, p, O.size)]
             w2 == UninitializedCopyN(w1, O.buffer, 0, O.size, p, 0, f - 1)
         IN  IF w2.thrown THEN Deallocate(w2, p)
             ELSE [w2 EXCEPT !.vec[v] = [alive |-> TRUE, buffer |-> p,
                                         capacity |-> O.size, size |-> O.size]]

\* Vector(Vector&& other): an empty vector swapped with other.
MoveConstruct(w, v, o) == Swap([w EXCEPT !.vec[v] = DefaultVector], v, o)

\* data_[i] = rhs.data_[i] for i in [i, n)
RECURSIVE CopyAssignPrefix(_, _, _, _, _)
CopyAssignPrefix(w, sp, dp, i, n) ==
    IF i >= n THEN w
    ELSE CopyAssignPrefix(CopyAssignSlot(w, sp, i, dp, i), sp, dp, i + 1, n)

\* The branch of operator=(const Vector&) that keeps the storage.
CopyAssignInPlace(w, v, o) ==
    LET V == w.vec[v]
        R == w.vec[o]
        w1 == CopyAssignPrefix(w, R.buffer, V.buffer, 0, Min(V.size, R.size))
        w2 == IF V.size < R.size
              THEN UninitializedCopyN(w1, R.buffer, V.size, R.size - V.size,
                                      V.buffer, V.size, 0)
              ELSE IF V.size > R.size
              THEN DestroyN(w1, V.buffer, R.size, V.size - R.size)
              ELSE w1
    IN  [w2 EXCEPT !.vec[v].size = R.size]

\* Faulty variant: what this holds is destroyed and released before the copy
\* is allocated.
CopyAssignReleaseFirst(w, v, o, f) ==
    LET V == w.vec[v]
        R == w.vec[o]
        w0 == [Deallocate(DestroyN(w, V.buffer, 0, V.size), V.buffer)
                  EXCEPT !.vec[v] = DefaultVector]
    IN  IF v = o THEN w
        ELSE IF R.size > V.capacity
        THEN IF f = 1 THEN [w0 EXCEPT !.thrown = TRUE]
             ELSE LET p == Allocate(w0.heap, R.size)
                      w1 == [w0 EXCEPT !.heap = Obtain(@, p, R.size)]
                      w2 == UninitializedCopyN(w1, R.buffer, 0, R.size, p, 0, 0)
                  IN  [w2 EXCEPT !.vec[v] = [alive |-> TRUE, buffer |-> p,
                                              capacity |-> R.size, size |-> R.size]]
        ELSE CopyAssignInPlace(w, v, o)

\* operator=(const Vector& rhs).  The other branch: Vector temp(rhs);
\* Swap(temp); then ~temp destroys what this held and releases its storage.
CopyAssign(w, v, o, f) ==
    LET V == w.vec[v]
        R == w.vec[o]
    IN  IF v = o THEN w
        ELSE IF R.size > V.capacity
        THEN IF f = 1 THEN [w EXCEPT !.thrown = TRUE]
             ELSE LET p == Allocate(w.heap, R.size)
                      w1 == [w EXCEPT !.heap = Obtain(@, p, R.size)]
                      w2 == UninitializedCopyN(w1, R.buffer, 0, R.size, p, 0, f - 1)
                  IN  IF w2.thrown THEN Deallocate(w2, p)
                      ELSE [Adopt(DestroyN(w2, V.buffer, 0, V.size), v, p, R.size)
                               EXCEPT !.vec[v].size = R.size]
        ELSE CopyAssignInPlace(w, v, o)

\* Faulty variant: what this holds is destroyed and released, this takes the
\* storage of rhs, and rhs is left empty.
MoveAssignSteal(w, v, o) ==
    LET V == w.vec[v]
        w1 == Deallocate(DestroyN(w, V.buffer, 0, V.size), V.buffer)
    IN  IF v # o
        THEN [w1 EXCEPT !.vec[v] = w.vec[o], !.vec[o] = DefaultVector]
        ELSE w

\* operator=(Vector&& rhs)
MoveAssign(w, v, o) == IF v # o THEN Swap(w, v, o) ELSE w

\* ~Vector then ~RawMemory
Destroy(w, v) ==
    LET V == w.vec[v]
    IN  [Deallocate(DestroyN(w, V.buffer, 0, V.size), V.buffer) EXCEPT !.vec[v] = NoVector]

\* ------------------------------------------------------------- calls
CapBound(v) == limit

\* A call is made only while the run is defined: once a call has read or
\* destroyed memory that holds no object, nothing the program does is defined.
Defined == ~last.ub

\* The failures a call may be given: none, the allocation, a construction.
Failures == 0..(MaxCap + 2)

\* Addresses carry no meaning beyond identity: after a call the blocks are
\* renumbered, the storage of "a" first, then that of "b".  (Every other block
\* has been released by then; a world that still holds one is kept as it is.)
Renumbered(w) ==
    LET pa == w.vec["a"].buffer
        pb == w.vec["b"].buffer
        na == IF pa = NullPtr THEN NullPtr ELSE 1
        nb == IF pb = NullPtr THEN NullPtr ELSE IF pb = pa THEN na ELSE na + 1
        new(p) == IF p = pa THEN na ELSE IF p = pb THEN nb ELSE p
    IN  IF \E q \in DOMAIN w.heap : w.heap[q] # << >> /\ q # pa /\ q # pb
        THEN w
        ELSE [w EXCEPT !.heap = [b \in DOMAIN w.heap |->
                                    IF b = na THEN w.heap[pa]
                                    ELSE IF b = nb THEN w.heap[pb] ELSE << >>],
                       !.vec["a"].buffer = na,
                       !.vec["b"].buffer = nb,
                       !.ret.buffer = new(@)]

\* One call of the program ran from World to w.
Finish(w, op, v, o, n, x, f) ==
    \E r \in {Renumbered(w)} :
        /\ heap' = r.heap
        /\ vec' = r.vec
        /\ last' = [op |-> op, v |-> v, o |-> o, n |-> n, x |-> x, ret |-> r.ret,
                    ub |-> r.ub, rawDestroy |-> r.rawDestroy, leak |-> r.leak,
                    thrown |-> r.thrown, ctor |-> r.ctor, carried |-> r.carried,
                    f |-> IF r.thrown THEN f ELSE 0]
        /\ UNCHANGED <<traits, limit>>

Commit(w, op, v, o, n, x, f) == Finish(w, op, v, o, n, x, f) /\ UNCHANGED log

\* The failure f is one the call can meet: it allocates when grows holds, and
\* it relocates size elements by a constructor that may throw.
CanFail(v, f, grows, first) ==
    \/ f = 0
    \/ grows /\ f = 1
    \/ first = 2 /\ f = 2
    \/ grows /\ f > first /\ f - first <= vec[v].size /\ ~traits.nothrowMove

CallDefaultConstruct(v) ==
    /\ Defined /\ ~vec[v].alive
    /\ Commit([World EXCEPT !.vec[v] = DefaultVector], "Vector", v, "", 0, "", 0)

CallSizedConstruct(v, n) ==
    /\ Defined /\ ~vec[v].alive
    /\ n <= CapBound(v)
    /\ Commit(SizedConstruct(World, v, n, 0), "VectorSized", v, "", n, "", 0)

CallCopyConstruct(v, o) ==
    /\ Defined /\ ~vec[v].alive /\ vec[o].alive /\ traits.copyable
    /\ vec[o].size <= CapBound(v)
    /\ Commit(CopyConstruct(World, v, o, 0), "VectorCopy", v, o, 0, "", 0)

CallMoveConstruct(v, o) ==
    /\ Defined /\ ~vec[v].alive /\ vec[o].alive
    /\ vec[o].capacity <= CapBound(v)
    /\ Commit(MoveConstruct(World, v, o), "VectorMove", v, o, 0, "", 0)

\* operator=(const Vector&); failure 1 is that of the allocation of the copy,
\* made when rhs.size_ exceeds the capacity.
CallCopyAssign(v, o, f) ==
    /\ Defined /\ vec[v].alive /\ vec[o].alive /\ traits.copyable
    /\ vec[o].size <= CapBound(v)
    /\ f = 0 \/ (f = 1 /\ v # o /\ vec[o].size > vec[v].capacity)
    /\ Commit(CopyAssign(World, v, o, f), "CopyAssign", v, o, 0, "", f)

CallMoveAssign(v, o) ==
    /\ Defined /\ vec[v].alive /\ vec[o].alive
    /\ vec[o].capacity <= CapBound(v) /\ vec[v].capacity <= CapBound(o)
    /\ Commit(MoveAssign(World, v, o), "MoveAssign", v, o, 0, "", 0)

CallSwap(v, o) ==
    /\ Defined /\ vec[v].alive /\ vec[o].alive /\ v # o
    /\ vec[o].capacity <= CapBound(v) /\ vec[v].capacity <= CapBound(o)
    /\ Commit(Swap(World, v, o), "Swap", v, o, 0, "", 0)

CallDestroy(v) ==
    /\ Defined /\ vec[v].alive
    /\ Commit(Destroy(World, v), "Destroy", v, "", 0, "", 0)

CallReserve(v, n, f) ==
    /\ Defined /\ vec[v].alive
    /\ n <= CapBound(v)
    /\ CanFail(v, f, n > vec[v].capacity, 1)
    /\ Commit(Reserve(World, v, n, f), "Reserve", v, "", n, "", f)

CallResize(v, n, f) ==
    /\ Defined /\ vec[v].alive
    /\ n <= CapBound(v)
    /\ CanFail(v, f, n > vec[v].capacity, 1)
    /\ Commit(Resize(World, v, n, f), "Resize", v, "", n, "", f)

\* PushBack(const T&), PushBack(T&&): EmplaceBack of the value.
CallPushBack(v, x, f) ==
    /\ Defined /\ vec[v].alive
    /\ vec[v].size = vec[v].capacity => GrowthCapacity(vec[v].size) <= CapBound(v)
    /\ CanFail(v, f, vec[v].size = vec[v].capacity, 2)
    /\ Commit(EmplaceBack(World, v, x, f), "PushBack", v, "", vec[v].size, x, f)

\* PushBack in a run that records what it appends.
CallAppend(x) ==
    /\ Defined /\ vec["a"].alive
    /\ Len(log) < MaxAppends
    /\ Finish(EmplaceBack(World, "a", x, 0), "PushBack", "a", "", vec["a"].size, x, 0)
    /\ log' = Append(log, x)

\* Insert(pos, const T&), Insert(pos, T&&): Emplace of the value at begin() + i.
CallInsert(v, i, x, g, f) ==
    /\ Defined /\ vec[v].alive
    /\ i <= vec[v].size
    /\ vec[v].size = vec[v].capacity => GrowthCapacity(vec[v].size) <= CapBound(v)
    /\ (i = vec[v].size \/ vec[v].size = vec[v].capacity) => g = Junk
    /\ CanFail(v, f, vec[v].size = vec[v].capacity, 2)
    /\ Commit(Emplace(World, v, i, x, g, f), "Insert", v, "", i, x, f)

\* Erase(begin() + i) of an element of the vector.
CallErase(v, i) ==
    /\ Defined /\ vec[v].alive
    /\ i < vec[v].size
    /\ Commit(Erase(World, v, i), "Erase", v, "", i, "", 0)

CallPopBack(v) ==
    /\ Defined /\ vec[v].alive
    /\ Commit(PopBack(World, v), "PopBack", v, "", 0, "", 0)

\* ------------------------------------------------------------- specification
NoCall == [op |-> "init", v |-> "", o |-> "", n |-> 0, x |-> "",
           ret |-> [buffer |-> NullPtr, offset |-> 0],
           ub |-> FALSE, rawDestroy |-> FALSE, leak |-> FALSE, thrown |-> FALSE,
           ctor |-> 0, carried |-> 0, f |-> 0]

\* Element types: relocated by move (nothrow move) or by copy (throwing move).
Copyable == {[nothrowMove |-> TRUE, copyable |-> TRUE],
             [nothrowMove |-> FALSE, copyable |-> TRUE]}

Init ==
    /\ heap = [b \in 1..NBlocks |-> << >>]
    /\ vec = [v \in VecIds |-> IF v = "a" THEN DefaultVector ELSE NoVector]
    /\ traits \in Copyable
    /\ limit = MaxCapTwo
    /\ last = NoCall
    /\ log = << >>

Next ==
    \E v \in VecIds :
        \/ CallDefaultConstruct(v)
        \/ \E n \in 0..MaxCapTwo : CallSizedConstruct(v, n)
        \/ \E o \in VecIds \ {v} : CallCopyConstruct(v, o)
        \/ \E o \in VecIds \ {v} : CallMoveConstruct(v, o)
        \/ \E o \in VecIds : CallCopyAssign(v, o, 0)
        \/ \E o \in VecIds : CallMoveAssign(v, o)
        \/ \E o \in VecIds : CallSwap(v, o)
        \/ CallDestroy(v)
        \/ \E n \in 0..MaxCapTwo : CallReserve(v, n, 0)
        \/ \E n \in 0..MaxCapTwo : CallResize(v, n, 0)
        \/ \E x \in Values : CallPushBack(v, x, 0)
        \/ \E i \in 0..MaxCapTwo, x \in Values, g \in Indeterminate : CallInsert(v, i, x, g, 0)
        \/ \E i \in 0..MaxCapTwo : CallErase(v, i)
        \/ CallPopBack(v)

\* Every operation, on two vectors.
Spec == Init /\ [][Next]_vars

InitOne ==
    /\ heap = [b \in 1..NBlocks |-> << >>]
    /\ vec = [v \in VecIds |-> IF v = "a" THEN DefaultVector ELSE NoVector]
    /\ traits \in Copyable
    /\ limit = MaxCap
    /\ last = NoCall
    /\ log = << >>

NextOne ==
    \/ CallDefaultConstruct("a")
    \/ \E n \in 0..MaxCap : CallSizedConstruct("a", n)
    \/ CallDestroy("a")
    \/ \E n \in 0..MaxCap : CallReserve("a", n, 0)
    \/ \E n \in 0..MaxCap : CallResize("a", n, 0)
    \/ \E x \in Values : CallPushBack("a", x, 0)
    \/ \E i \in 0..MaxCap, x \in Values, g \in Indeterminate : CallInsert("a", i, x, g, 0)
    \/ \E i \in 0..MaxCap : CallErase("a", i)
    \/ CallPopBack("a")

\* The operations of one vector, up to a larger capacity.
SpecOne == InitOne /\ [][NextOne]_vars

\* Every element type, the move-only ones included.
AllTypes == [nothrowMove : BOOLEAN, copyable : BOOLEAN]

InitFail ==
    /\ heap = [b \in 1..NBlocks |-> << >>]
    /\ vec = [v \in VecIds |-> IF v = "a" THEN DefaultVector ELSE NoVector]
    /\ traits \in AllTypes
    /\ limit = MaxCap
    /\ last = NoCall
    /\ log = << >>

NextFail ==
    \/ \E n \in 0..MaxCap, f \in Failures : CallReserve("a", n, f)
    \/ \E x \in Values, f \in Failures : CallPushBack("a", x, f)
    \/ \E i \in 0..MaxCap, x \in Values, g \in Indeterminate, f \in Failures :
           CallInsert("a", i, x, g, f)
    \/ CallPopBack("a")
    \/ CallDestroy("a")

\* Growth of one vector where allocations and constructors may throw, up to
\* its destruction.
SpecFail == InitFail /\ [][NextFail]_vars

InitAppend ==
    /\ heap = [b \in 1..NBlocks |-> << >>]
    /\ vec = [v \in VecIds |-> IF v = "a" THEN DefaultVector ELSE NoVector]
    /\ traits \in Copyable
    /\ limit = 2 * MaxAppends
    /\ last = NoCall
    /\ log = << >>

NextAppend == \E x \in Values : CallAppend(x)

\* Appends to a default-constructed vector, and nothing else.
SpecAppend == InitAppend /\ [][NextAppend]_vars

\* operator new either returns the storage or throws std::bad_alloc.
AllocFailures == {0, 1}

InitAlloc ==
    /\ heap = [b \in 1..NBlocks |-> << >>]
    /\ vec = [v \in VecIds |-> IF v = "a" THEN DefaultVector ELSE NoVector]
    /\ traits \in Copyable
    /\ limit = MaxCapTwo
    /\ last = NoCall
    /\ log = << >>

NextAlloc ==
    \E v \in VecIds :
        \/ \E n \in 0..MaxCapTwo : CallSizedConstruct(v, n)
        \/ \E o \in VecIds, f \in AllocFailures : CallCopyAssign(v, o, f)
        \/ \E n \in 0..MaxCapTwo, f \in AllocFailures : CallReserve(v, n, f)
        \/ \E x \in Values, f \in AllocFailures : CallPushBack(v, x, f)
        \/ \E i \in 0..MaxCapTwo, x \in Values, g \in Indeterminate, f \in AllocFailures :
               CallInsert(v, i, x, g, f)
        \/ CallPopBack(v)

\* The calls that allocate, on two vectors, where an allocation may fail.
SpecAlloc == InitAlloc /\ [][NextAlloc]_vars

\* ------------------------------------------------------------- properties
\* The elements of vector v in world w, first to last (no object where the
\* storage ends before the size does).
ElementsIn(w, v) ==
    [k \in 1..w.vec[v].size |->
        IF InBlock(w, w.vec[v].buffer, k - 1) THEN w.heap[w.vec[v].buffer][k] ELSE Uninit]

\* The elements of vector v.
Elements(v) == ElementsIn([heap |-> heap, vec |-> vec], v)

\* Sequences s and t are equal, element by element.
Same(s, t) == Len(s) = Len(t) /\ \A k \in 1..Len(s) : s[k] = t[k]

\* The first n elements of s and of t are equal.
SamePrefix(s, t, n) == \A k \in 1..n : s[k] = t[k]

\* s with x put before its element number i (from 0), and s without that element.
InsertAt(s, i, x) ==
    [k \in 1..(Len(s) + 1) |-> IF k <= i THEN s[k] ELSE IF k = i + 1 THEN x ELSE s[k - 1]]
RemoveAt(s, i) ==
    [k \in 1..(Len(s) - 1) |-> IF k <= i THEN s[k] ELSE s[k + 1]]

\* C1: Insert/Emplace at index i of value x leaves s[0..i), x, s[i..size), the
\* size one larger, and returns a pointer to index i, whether or not the call
\* grows the storage.
C1_InsertPlacesValue ==
    [][\A v \in VecIds :
          (last'.op = "Insert" /\ last'.v = v /\ ~last'.thrown) =>
              /\ Same(Elements(v)', InsertAt(Elements(v), last'.n, last'.x))
              /\ vec'[v].size = vec[v].size + 1
              /\ last'.ret = [buffer |-> vec'[v].buffer, offset |-> last'.n]]_vars

\* C2: Resize(n) ends with size n and the first min(old size, n) elements
\* unchanged; within the capacity it value-constructs exactly [old size, n) and
\* destroys nothing; shrinking destroys exactly [n, old size); beyond the
\* capacity it reserves and value-constructs [old size, n).
C2_ResizeSetsSize ==
    [][\A v \in VecIds :
          (last'.op = "Resize" /\ last'.v = v /\ ~last'.thrown) =>
              LET n == last'.n
                  old == vec[v].size
                  keep == Min(old, n)
              IN  /\ vec'[v].size = n
                  /\ SamePrefix(Elements(v)', Elements(v), keep)
                  /\ ~last'.ub
                  /\ \A k \in (old + 1)..n : Elements(v)'[k] = DefaultValue
                  /\ \A k \in (n + 1)..vec'[v].capacity :
                         heap'[vec'[v].buffer][k] = Uninit]_vars

\* C3: in every reachable state the slots [0, size) of a vector hold constructed
\* elements and the slots [size, capacity) hold none.
C3_LiveExactlyBelowSize ==
    \A v \in VecIds :
        vec[v].alive =>
            \A k \in 1..vec[v].capacity :
                (heap[vec[v].buffer][k] # Uninit) <=> (k <= vec[v].size)

\* C5: from every state, Insert(pos, x) followed at once by Erase(pos)
\* restores the element sequence and the size.
C5_InsertThenEraseRestores ==
    \A v \in VecIds, i \in 0..MaxCap, x \in Values, g \in Indeterminate :
        (Defined /\ vec[v].alive /\ i <= vec[v].size) =>
            LET w == Erase(Emplace(World, v, i, x, g, 0), v, i)
            IN  /\ Same(ElementsIn(w, v), Elements(v))
                /\ w.vec[v].size = vec[v].size

\* C9: Erase at index i removes that element and keeps the order of the
\* others, makes the size one smaller, keeps the capacity, and returns a
\* pointer to index i (the new end when the last element was removed).
C9_EraseRemovesOne ==
    [][\A v \in VecIds :
          (last'.op = "Erase" /\ last'.v = v) =>
              /\ Same(Elements(v)', RemoveAt(Elements(v), last'.n))
              /\ vec'[v].size = vec[v].size - 1
              /\ vec'[v].capacity = vec[v].capacity
              /\ last'.ret = [buffer |-> vec'[v].buffer, offset |-> last'.n]
              /\ last'.n = vec[v].size - 1 => last'.ret.offset = vec'[v].size
              /\ ~last'.ub]_vars

\* An Erase of index 1 of four elements has run.
C9_Witness ==
    /\ last.op = "Erase" /\ last.n = 1 /\ vec["a"].size = 3 /\ vec["a"].capacity = 4

\* C10: an append or an insert made when size == capacity keeps every old
\* element, in order, around the new one at its index in the new storage.
C10_GrowthKeepsElements ==
    [][\A v \in VecIds :
          (/\ last'.op \in {"PushBack", "Insert"} /\ last'.v = v /\ ~last'.thrown
           /\ vec[v].size = vec[v].capacity) =>
              /\ Same(Elements(v)', InsertAt(Elements(v), last'.n, last'.x))
              /\ vec'[v].capacity >= vec[v].size + 1
              /\ ~last'.ub]_vars

\* A growing insert before the last of two elements has run: one element was
\* relocated after the new one.
C10_Witness ==
    /\ last.op = "Insert" /\ ~last.ub /\ last.n = 1
    /\ vec["a"].size = 3 /\ vec["a"].capacity = 4

\* The smallest power of two that is at least n.
RECURSIVE Doubled(_, _)
Doubled(c, n) == IF c >= n THEN c ELSE Doubled(2 * c, n)
SmallestPowerOfTwo(n) == Doubled(1, n)

\* C4: a default-constructed vector has size 0 and capacity 0, and after N >= 1
\* appends its size is N, its elements are the appended values in order, and
\* its capacity is the smallest power of two >= N.
C4_AppendsDouble ==
    LET N == Len(log)
    IN  /\ N = 0 => vec["a"].size = 0 /\ vec["a"].capacity = 0
        /\ N >= 1 =>
               /\ vec["a"].size = N
               /\ Same(Elements("a"), log)
               /\ vec["a"].capacity = SmallestPowerOfTwo(N)

\* Five appends have run: size 5, capacity 8.
C4_Witness ==
    /\ Len(log) = 5 /\ last.op = "PushBack"
    /\ vec["a"].size = 5 /\ vec["a"].capacity = 8

\* C6 as stated: after move construction and after move assignment from a
\* source into a target, empty or not, the target holds the source's prior
\* elements and the source has size 0.
C6_MoveLeavesSourceEmpty ==
    [][\A v \in VecIds, o \in VecIds :
          (last'.op \in {"VectorMove", "MoveAssign"} /\ last'.v = v /\ last'.o = o /\ v # o) =>
              /\ Same(Elements(v)', Elements(o))
              /\ vec'[o].size = 0]_vars

\* C6 amended: after move construction the target holds the source's prior
\* elements and the source has size 0; after move assignment from another
\* vector the target holds the source's prior elements and the source is left
\* with the size the target had.
C6_MoveTransfers ==
    [][\A v \in VecIds, o \in VecIds :
          /\ (last'.op = "VectorMove" /\ last'.v = v /\ last'.o = o) =>
                 /\ Same(Elements(v)', Elements(o))
                 /\ vec'[o].size = 0
          /\ (last'.op = "MoveAssign" /\ last'.v = v /\ last'.o = o /\ v # o) =>
                 /\ Same(Elements(v)', Elements(o))
                 /\ vec'[o].size = vec[v].size]_vars

\* A move assignment between two non-empty vectors of different sizes has run.
C6_Witness ==
    /\ last.op = "MoveAssign" /\ last.v # last.o
    /\ vec[last.v].size = 2 /\ vec[last.o].size = 1

\* The call that just ran on v was one that grows the storage.
GrowingCall(v) ==
    /\ last'.v = v
    /\ \/ last'.op = "Reserve" /\ last'.n > vec[v].capacity
       \/ last'.op \in {"PushBack", "Insert"} /\ vec[v].size = vec[v].capacity

C8_CopyIsEqualAndIndependent ==
    [][\A v \in VecIds, o \in VecIds :
          /\ (last'.op \in {"VectorCopy", "CopyAssign"} /\ last'.v = v /\ last'.o = o) =>
                 /\ vec'[v].size = vec[o].size
                 /\ Same(Elements(v)', Elements(o))
                 /\ vec'[o].size = vec[o].size
                 /\ vec'[o].capacity = vec[o].capacity
                 /\ Same(Elements(o)', Elements(o))
                 /\ (v # o /\ vec'[v].buffer # NullPtr) => vec'[v].buffer # vec'[o].buffer
          /\ (last'.v = v /\ o # v /\ last'.op \notin {"Swap", "MoveAssign", "VectorMove"}) =>
                 /\ vec'[o].alive = vec[o].alive
                 /\ vec'[o].size = vec[o].size
                 /\ vec'[o].capacity = vec[o].capacity
                 /\ Same(Elements(o)', Elements(o))]_vars

\* A copy assignment that kept the storage (capacity 2 for one element) has run.
C8_Witness ==
    /\ last.op = "CopyAssign" /\ last.v # last.o
    /\ vec[last.v].size = 1 /\ vec[last.v].capacity = 2

\* C11: in every state reached by calls of the public operations, the size of
\* a vector is at least 0 and at most its capacity.
C11_SizeWithinCapacity ==
    \A v \in VecIds :
        vec[v].alive => 0 <= vec[v].size /\ vec[v].size <= vec[v].capacity

\* One vector is full and the other, after its last element was removed, is
\* empty in storage of two slots.
C11_Witness ==
    /\ last.op \in {"Erase", "PopBack", "Resize"}
    /\ vec[last.v].size = 0 /\ vec[last.v].capacity = 2
    /\ \E o \in VecIds \ {last.v} : vec[o].size = 2 /\ vec[o].capacity = 2

\* The slots of the storage of v, live or not, are as they were.
SameStorage(v) ==
    /\ vec'[v].buffer = vec[v].buffer
    /\ vec'[v].buffer # NullPtr => Same(heap'[vec'[v].buffer], heap[vec[v].buffer])

\* C12: Reserve(n) with n <= capacity changes neither the size, the capacity
\* nor any element; with n > capacity it makes the capacity exactly n and
\* leaves the size and the elements, in order, as they were.
C12_ReserveFrame ==
    [][\A v \in VecIds :
          (last'.op = "Reserve" /\ last'.v = v /\ ~last'.thrown) =>
              /\ vec'[v].size = vec[v].size
              /\ Same(Elements(v)', Elements(v))
              /\ ~last'.ub
              /\ last'.n <= vec[v].capacity =>
                     vec'[v].capacity = vec[v].capacity /\ SameStorage(v)
              /\ last'.n > vec[v].capacity =>
                     /\ vec'[v].capacity = last'.n
                     /\ Len(heap'[vec'[v].buffer]) = last'.n]_vars

\* Reserve(4) has run on two elements in storage of two slots.
C12_Witness ==
    /\ last.op = "Reserve" /\ last.n = 4 /\ ~last.thrown
    /\ vec["a"].size = 2 /\ vec["a"].capacity = 4
    /\ heap[vec["a"].buffer][1] \in Values /\ heap[vec["a"].buffer][2] \in Values

\* C13: from every state, Resize(n) followed by Resize(m) with m < n ends with
\* size m and with the first m elements being the elements that Resize(n) left,
\* unchanged, and neither call leaves what is defined.
C13_ResizeThenShrink ==
    \A v \in VecIds, n \in 0..MaxCap, m \in 0..MaxCap :
        (Defined /\ vec[v].alive /\ m < n) =>
            LET w1 == Resize(World, v, n, 0)
                w2 == Resize(w1, v, m, 0)
            IN  /\ w2.vec[v].size = m
                /\ ~w2.ub
                /\ \A k \in 1..m :
                       /\ ElementsIn(w1, v)[k] # Uninit
                       /\ ElementsIn(w2, v)[k] = ElementsIn(w1, v)[k]

\* C14: when the allocation fails in a copy assignment that reallocates, a
\* growing Reserve, a growing append or a growing insert, the size, the
\* capacity, the elements and the storage of the vector are as before the call,
\* and nothing was destroyed or left behind.
C14_FailedAllocationKeepsAll ==
    [][\A v \in VecIds :
          (last'.v = v /\ last'.thrown /\ last'.f = 1) =>
              /\ last'.op \in {"CopyAssign", "Reserve", "PushBack", "Insert"}
              /\ vec'[v].size = vec[v].size
              /\ vec'[v].capacity = vec[v].capacity
              /\ Same(Elements(v)', Elements(v))
              /\ SameStorage(v)
              /\ \A o \in VecIds \ {v} : vec'[o] = vec[o] /\ SameStorage(o)
              /\ ~last'.ub /\ ~last'.leak]_vars

\* The allocation failed in a copy assignment of two elements to a vector that
\* holds one element in storage of one slot.
C14_Witness ==
    /\ last.op = "CopyAssign" /\ last.thrown /\ last.f = 1
    /\ vec[last.v].size = 1 /\ vec[last.v].capacity = 1 /\ vec[last.o].size = 2

\* Every slot of the storage of v, live or not.
StorageOf(v) == IF vec[v].buffer = NullPtr THEN << >> ELSE heap[vec[v].buffer]

\* C15: a move assignment a = move(b) between distinct vectors is a swap: a ends
\* with the size, capacity and elements b had, b with those a had, and no slot
\* of either storage is constructed, assigned or destroyed; a self move
\* assignment changes nothing.
C15_MoveAssignSwaps ==
    [][\A v \in VecIds, o \in VecIds :
          (last'.op = "MoveAssign" /\ last'.v = v /\ last'.o = o) =>
              /\ ~last'.thrown /\ ~last'.ub /\ ~last'.leak /\ last'.ctor = 0
              /\ v # o =>
                     /\ vec'[v].size = vec[o].size
                     /\ vec'[v].capacity = vec[o].capacity
                     /\ Same(Elements(v)', Elements(o))
                     /\ Same(StorageOf(v)', StorageOf(o))
                     /\ vec'[o].size = vec[v].size
                     /\ vec'[o].capacity = vec[v].capacity
                     /\ Same(Elements(o)', Elements(v))
                     /\ Same(StorageOf(o)', StorageOf(v))
              /\ v = o =>
                     /\ vec' = vec
                     /\ \A u \in VecIds : Same(StorageOf(u)', StorageOf(u))]_vars

\* A move assignment has run between a vector of one element in storage of
\* two slots and a full vector of two elements.
C15_Witness ==
    /\ last.op = "MoveAssign" /\ last.v # last.o
    /\ vec[last.o].size = 1 /\ vec[last.o].capacity = 2
    /\ vec[last.v].size = 2 /\ vec[last.v].capacity = 2
    /\ heap[vec[last.v].buffer][1] \in Values /\ heap[vec[last.o].buffer][1] \in Values

\* The capacity an append or insert must leave: 1 from capacity 0, twice the
\* capacity when the vector is full, the capacity as it is otherwise.
CapacityAfterAdding(v) ==
    IF vec[v].size = vec[v].capacity
    THEN IF vec[v].capacity = 0 THEN 1 ELSE 2 * vec[v].capacity
    ELSE vec[v].capacity

\* C16: from every reachable state, whatever calls led to it, an append and an
\* insert at any position make the capacity 1 when the vector is full with
\* capacity 0, twice the capacity when it is full otherwise, and leave the
\* capacity as it is when size < capacity; the storage has that many slots.
\* (The indeterminate value of the non-growing insert is taken as Junk: no
\* capacity is computed from it.)
C16_GrowthRule ==
    \A v \in VecIds :
        (Defined /\ vec[v].alive) =>
            /\ \A x \in Values :
                   \A w \in {EmplaceBack(World, v, x, 0)} :
                       /\ w.vec[v].capacity = CapacityAfterAdding(v)
                       /\ Len(w.heap[w.vec[v].buffer]) = CapacityAfterAdding(v)
            /\ \A i \in 0..vec[v].size, x \in Values :
                   \A w \in {Emplace(World, v, i, x, Junk, 0)} :
                       /\ w.vec[v].capacity = CapacityAfterAdding(v)
                       /\ Len(w.heap[w.vec[v].buffer]) = CapacityAfterAdding(v)

\* A vector made full by a copy assignment of two elements, from which the
\* next append or insert doubles two slots to four, beside a vector with room.
C16_Witness ==
    /\ last.op = "CopyAssign" /\ last.v # last.o /\ Defined
    /\ vec[last.v].size = 2 /\ vec[last.v].capacity = 2
    /\ vec[last.o].size = 2
    /\ LET w == Emplace(World, last.v, 1, "x", Junk, 0)
       IN  w.vec[last.v].capacity = 4 /\ w.vec[last.v].size = 3

\* C17: PopBack on a vector that is not empty destroys the last element and no
\* other, makes the size one smaller and leaves the capacity and the other
\* elements as they were; on an empty vector it changes nothing and does not
\* fail.
C17_PopBackRemovesLast ==
    [][\A v \in VecIds :
          (last'.op = "PopBack" /\ last'.v = v) =>
              /\ ~last'.thrown /\ ~last'.ub /\ ~last'.leak
              /\ vec'[v].capacity = vec[v].capacity
              /\ vec'[v].buffer = vec[v].buffer
              /\ vec[v].size > 0 =>
                     /\ vec'[v].size = vec[v].size - 1
                     /\ Len(StorageOf(v)') = Len(StorageOf(v))
                     /\ \A k \in 1..Len(StorageOf(v)) :
                            StorageOf(v)'[k] =
                                IF k = vec[v].size THEN Uninit ELSE StorageOf(v)[k]
              /\ vec[v].size = 0 =>
                     /\ vec'[v] = vec[v]
                     /\ Same(StorageOf(v)', StorageOf(v))]_vars

\* PopBack has run on a full vector of four elements.
C17_Witness ==
    /\ last.op = "PopBack"
    /\ vec["a"].size = 3 /\ vec["a"].capacity = 4
    /\ \A k \in 1..3 : heap[vec["a"].buffer][k] # Uninit
    /\ heap[vec["a"].buffer][4] = Uninit

\* C18: an Emplace or EmplaceBack that succeeds, at any position, growing or
\* not, invokes one constructor on the caller's arguments and makes no copy
\* or move of the element built from them; every other copy or move it makes
\* has an element of the vector as its source.
C18_OneConstructorNoCopy ==
    [][\A v \in VecIds :
          (last'.op \in {"PushBack", "Insert"} /\ last'.v = v /\ ~last'.thrown) =>
              /\ last'.ctor = 1
              /\ last'.carried = 0
              /\ ~last'.ub]_vars

\* C19: when an Insert/Emplace before end fails in constructing or assigning
\* the new element, growing or not, the size, the capacity and the elements are
\* as before the call, and so is every slot of the storage: nothing is left
\* shifted and no slot beyond the size is left constructed.
C19_FailedInsertKeepsAll ==
    [][\A v \in VecIds :
          (/\ last'.op = "Insert" /\ last'.v = v
           /\ last'.thrown /\ last'.f = 2 /\ last'.n < vec[v].size) =>
              /\ vec'[v].size = vec[v].size
              /\ vec'[v].capacity = vec[v].capacity
              /\ Same(Elements(v)', Elements(v))
              /\ Same(StorageOf(v)', StorageOf(v))]_vars

\* C20: in every run, with calls that fail partway through growth and with the
\* destruction of the vector, no call releases storage in which a constructed
\* element is left undestroyed, and no call runs a destructor on a slot that
\* holds no live element (raw, or destroyed already).
C20_EveryElementDestroyedOnce == ~last.leak /\ ~last.rawDestroy

====
